---- MODULE Spec2Model ----
(***************************************************************************)
(* A model of the growable octree of src/physics/octree.rs together with   *)
(* the box and ray primitives of src/physics/aabb.rs and                   *)
(* src/physics/ray.rs.                                                     *)
(*                                                                         *)
(* Numbers.  The program computes in f32.  The model computes in integers  *)
(* and rounds every sum and difference to the 24 significant bits of an    *)
(* f32 (round to nearest, ties to even), so arithmetic is exact on the     *)
(* small grid most scenes live on and rounds as the program does on the    *)
(* scene whose bound needs more than 24 bits.  Every center the model      *)
(* forms is an integer.  The two non-finite values a slab test produces    *)
(* are kept: Inf is +infinity (-Inf is -infinity) and NaN is the result of *)
(* 0 * infinity.                                                           *)
(*                                                                         *)
(* Indices.  The arena `nodes` is a sequence, so a node index of the model *)
(* is the program's index plus one and NULL_INDEX (usize::MAX in the       *)
(* program, never a valid index of nodes or of children) is -1.            *)
(***************************************************************************)
EXTENDS Integers, Sequences, FiniteSets, TLC

(***************************************************************************)
(* f32                                                                     *)
(***************************************************************************)
Inf == 1000000000

NaN == 2000000000

EPSILON == 0

Abs(x) == IF x < 0 THEN -x ELSE x

\* f32::MANTISSA_DIGITS
MANTISSA_DIGITS == 24

\* The gap between neighbouring f32 values at magnitude a >= 0.
RECURSIVE ulp(_)
ulp(a) == IF a < 2 ^ MANTISSA_DIGITS THEN 1 ELSE 2 * ulp(a \div 2)

\* The result of an f32 operation whose exact value is the integer x: the
\* f32 nearest to x, ties to the even mantissa.
rnd(x) ==
    IF Abs(x) < 2 ^ MANTISSA_DIGITS THEN x
    ELSE LET u == ulp(Abs(x))
             q == Abs(x) \div u
             r == Abs(x) % u
             m == IF 2 * r > u \/ (2 * r = u /\ q % 2 = 1) THEN (q + 1) * u ELSE q * u
         IN IF x < 0 THEN -m ELSE m

\* f32::min: the other operand when one is NaN.
fmin(a, b) == IF a = NaN THEN b ELSE IF b = NaN THEN a ELSE IF a < b THEN a ELSE b

\* f32::max: the other operand when one is NaN.
fmax(a, b) == IF a = NaN THEN b ELSE IF b = NaN THEN a ELSE IF a > b THEN a ELSE b

\* f32 multiplication of a finite difference by a reciprocal direction.
fmul(a, r) ==
    IF r = Inf THEN (IF a = 0 THEN NaN ELSE IF a > 0 THEN Inf ELSE -Inf)
    ELSE a * r

\* f32::recip of a direction component in {-1, 0, 1}.
recip(d) == IF d = 0 THEN Inf ELSE d

Axes == 1..3

(***************************************************************************)
(* Vec3 / BVec3                                                            *)
(***************************************************************************)
Vec3(x, y, z) == <<x, y, z>>

splat(v) == <<v, v, v>>

vadd(a, b) == [i \in Axes |-> rnd(a[i] + b[i])]

vsub(a, b) == [i \in Axes |-> rnd(a[i] - b[i])]

vscale(a, k) == [i \in Axes |-> a[i] * k]

BVec3 == [Axes -> BOOLEAN]

(***************************************************************************)
(* AABB (aabb.rs)                                                          *)
(***************************************************************************)
AABB(mn, mx) == [min |-> mn, max |-> mx]

\* Vec3::cmpge(...).any(): a comparison with NaN is false.
cmpge_any(a, b) == \E i \in Axes : a[i] # NaN /\ b[i] # NaN /\ a[i] >= b[i]

\* Vec3::is_nan: some component is NaN.
is_nan(v) == \E i \in Axes : v[i] = NaN

\* AABB::new checking the order of the components only.
AABB_new_ok_unless_ordered(mn, mx) == ~cmpge_any(mn, mx)

\* The condition under which AABB::new returns instead of panicking.
AABB_new_ok(mn, mx) == ~(cmpge_any(mn, mx) \/ is_nan(mn) \/ is_nan(mx))

length(b) == vsub(b.max, b.min)

center(b) == [i \in Axes |-> rnd(b.min[i] + b.max[i]) \div 2]

\* impl Sub<Vec3> for AABB
aabb_sub(b, v) == AABB(vsub(b.min, v), vsub(b.max, v))

\* The first loop of extend_for: the boxes handed to the callback.  A step
\* that leaves the box as it was is repeated by the loop without end; the
\* sequence is cut after the first such step.
RECURSIVE extend_min(_, _)
extend_min_from(self, s, other) ==
    IF s = self THEN <<s>> ELSE <<s>> \o extend_min(s, other)

extend_min(self, other) ==
    IF \E i \in Axes : self.min[i] > other.min[i]
    THEN extend_min_from(self, AABB(vsub(self.min, length(self)), self.max), other)
    ELSE <<>>

\* The second loop of extend_for, cut in the same way.
RECURSIVE extend_max(_, _)
extend_max_from(self, s, other) ==
    IF s = self THEN <<s>> ELSE <<s>> \o extend_max(s, other)

extend_max(self, other) ==
    IF \E i \in Axes : self.max[i] < other.max[i]
    THEN extend_max_from(self, AABB(self.min, vadd(self.max, length(self))), other)
    ELSE <<>>

\* extend_for: the boxes handed to the callback, in order.
extend_for(self, other) ==
    LET lo == extend_min(self, other)
        s1 == IF lo = <<>> THEN self ELSE lo[Len(lo)]
    IN lo \o extend_max(s1, other)

\* AABB::extend is called by Octree::try_extend but its body is not part of
\* the sources; it is taken to return the box extend_for ends with.
extend(self, other) ==
    LET steps == extend_for(self, other)
    IN IF steps = <<>> THEN self ELSE steps[Len(steps)]

\* Option<BVec3>: [some |-> FALSE] is None.
None == [some |-> FALSE]

Some(v) == [some |-> TRUE, val |-> v]

\* octant that takes a box with min = 0 on an axis for neither side.
octant_open(b) ==
    LET p == [i \in Axes |-> b.min[i] > 0 /\ b.max[i] > 0]
        n == [i \in Axes |-> b.min[i] < 0 /\ b.max[i] <= 0]
    IN IF \A i \in Axes : p[i] # n[i] THEN Some(p) ELSE None

octant(b) ==
    LET p == [i \in Axes |-> b.min[i] >= 0 /\ b.max[i] > 0]
        n == [i \in Axes |-> b.min[i] < 0 /\ b.max[i] <= 0]
    IN IF \A i \in Axes : p[i] # n[i] THEN Some(p) ELSE None

\* get_octant with the center c of b at hand.
get_octant_at(b, bvec3, c) ==
    AABB([i \in Axes |-> IF bvec3[i] THEN c[i] ELSE b.min[i]],
         [i \in Axes |-> IF bvec3[i] THEN b.max[i] ELSE c[i]])

get_octant(b, bvec3) == get_octant_at(b, bvec3, center(b))

\* is_on_octant with the center c of the box at hand.
is_on_octant_at(c, point) ==
    [i \in Axes |->
       IF Abs(rnd(point[i] - c[i])) <= EPSILON THEN "Equal"
       ELSE IF point[i] < c[i] THEN "Less" ELSE "Greater"]

is_on_octant(b, point) == is_on_octant_at(center(b), point)

\* _intersects counting a shared face as an overlap.
_intersects_inclusive(a, b) ==
    /\ \A i \in Axes : a.min[i] <= b.max[i]
    /\ \A i \in Axes : a.max[i] >= b.min[i]

_intersects(a, b) ==
    /\ \A i \in Axes : a.min[i] < b.max[i]
    /\ \A i \in Axes : a.max[i] > b.min[i]

(***************************************************************************)
(* Ray (ray.rs)                                                            *)
(***************************************************************************)
Ray(origin, dir) == [origin |-> origin, dir |-> dir]

recip_dir(ray) == [i \in Axes |-> recip(ray.dir[i])]

point(ray, t) == vadd(ray.origin, vscale(ray.dir, t))

ray_t(ray, v) == [i \in Axes |-> fmul(rnd(v[i] - ray.origin[i]), recip_dir(ray)[i])]

RECURSIVE slab(_, _, _, _, _)
slab(d_min, d_max, i, t_min, t_max) ==
    IF i > 3 THEN <<t_min, t_max>>
    ELSE LET a == fmax(t_min, fmin(fmin(d_min[i], d_max[i]), t_max))
             b == fmin(t_max, fmax(fmax(d_min[i], d_max[i]), a))
         IN slab(d_min, d_max, i + 1, a, b)

\* The end of intersects_ray_raw without the test for a box behind the ray.
intersects_ray_raw_behind(t) == IF t[1] >= t[2] THEN None ELSE Some(t)

\* The end of intersects_ray_raw: t is <<t_min, t_max>> after the loop.
intersects_ray_raw_of(t) == IF t[2] <= 0 \/ t[1] >= t[2] THEN None ELSE Some(t)

intersects_ray_raw(b, ray) ==
    intersects_ray_raw_of(slab(ray_t(ray, b.min), ray_t(ray, b.max), 1, -Inf, Inf))

\* intersects_ray answering with the far end of the overlap in every case.
intersects_ray_far(b, ray) ==
    LET r == intersects_ray_raw(b, ray)
    IN IF r.some THEN Some(r.val[2]) ELSE None

\* intersects_ray answering with the near end of the overlap in every case.
intersects_ray_near(b, ray) ==
    LET r == intersects_ray_raw(b, ray)
    IN IF r.some THEN Some(r.val[1]) ELSE None

\* The closure intersects_ray maps over the result r of intersects_ray_raw.
intersects_ray_map(r) ==
    IF r.some
    THEN Some(IF r.val[1] <= 0 THEN r.val[2] ELSE r.val[1])
    ELSE None

intersects_ray(b, ray) == intersects_ray_map(intersects_ray_raw(b, ray))

\* The end of octant_at: r is [x, y, z] after the ties have been broken.
octant_at_of(r) ==
    IF \E i \in Axes : r[i] = "Equal"
    THEN None
    ELSE Some([i \in Axes |-> r[i] = "Greater"])

\* octant_at after its first line: o is what is_on_octant answered.
octant_at_on(ray, o) ==
    octant_at_of([i \in Axes |->
                    IF o[i] = "Equal" /\ ray.dir[i] # 0
                    THEN (IF ray.dir[i] > 0 THEN "Greater" ELSE "Less")
                    ELSE o[i]])

octant_at(ray, pivot, aabb) == octant_at_on(ray, is_on_octant(aabb, point(ray, pivot)))

\* next_octant that moves along the first of the tied axes only.
next_octant_first(oct, check, a) ==
    LET T == TRUE
        F == FALSE
        delta ==
            IF a[1] >= a[2] /\ a[1] >= a[3] THEN <<T, F, F>>
            ELSE IF a[2] >= a[3] THEN <<F, T, F>> ELSE <<F, F, T>>
    IN [i \in Axes |-> IF delta[i] THEN check[i] > 0 ELSE oct[i]]

\* next_octant after its first two lines: a is check.abs().
next_octant_of(oct, check, a) ==
    LET T == TRUE
        F == FALSE
        delta ==
            IF a[1] > a[2]
            THEN (IF a[1] > a[3] THEN <<T, F, F>>
                  ELSE IF a[3] > a[1] THEN <<F, F, T>> ELSE <<T, F, T>>)
            ELSE IF a[2] > a[1]
            THEN (IF a[2] > a[3] THEN <<F, T, F>>
                  ELSE IF a[3] > a[2] THEN <<F, F, T>> ELSE <<F, T, T>>)
            ELSE (IF a[1] > a[3] THEN <<T, T, F>>
                  ELSE IF a[3] > a[1] THEN <<F, F, T>> ELSE <<T, T, T>>)
    IN [i \in Axes |-> IF delta[i] THEN check[i] > 0 ELSE oct[i]]

\* next_octant after its first line: check is the offset of the point from
\* the center of the octant.
next_octant_from(oct, check) == next_octant_of(oct, check, [i \in Axes |-> Abs(check[i])])

next_octant(ray, oct, pivot, bound) ==
    next_octant_from(oct, vsub(point(ray, pivot), center(get_octant(bound, oct))))

(***************************************************************************)
(* OctreeEntity and OctreeNode (octree.rs)                                 *)
(***************************************************************************)
NULL_INDEX == -1

\* OctreeEntity: ordered and compared by `entity` alone.
OctreeEntity(entity, aabb) == [entity |-> entity, aabb |-> aabb]

\* BTreeSet<OctreeEntity>::insert: the new size tells whether it was added.
set_insert(s, e) ==
    IF \E x \in s : x.entity = e.entity THEN s ELSE s \cup {e}

\* BTreeSet<OctreeEntity>::remove(&Entity)
set_remove(s, entity) == {x \in s : x.entity # entity}

set_contains(s, entity) == \E x \in s : x.entity = entity

OctantIdx == 0..7

OctreeNode_new(aabb, parent) ==
    [aabb |-> aabb,
     entities |-> {},
     parent |-> parent,
     children |-> [k \in OctantIdx |-> NULL_INDEX],
     children_len |-> 0]

octant_to_index(o) ==
    4 * (IF o[1] THEN 1 ELSE 0) + 2 * (IF o[2] THEN 1 ELSE 0) + (IF o[3] THEN 1 ELSE 0)

get_child_index(node, o) == node.children[octant_to_index(o)]

(***************************************************************************)
(* Octree (octree.rs).  An operator takes the tree as the record           *)
(* [root, base_aabb, nodes, min_leaf_extent, idle, len] and returns the    *)
(* tree it leaves.                                                         *)
(***************************************************************************)
Octree_new(min_leaf_extent, aabb) ==
    [root |-> NULL_INDEX,
     base_aabb |-> aabb,
     nodes |-> <<>>,
     min_leaf_extent |-> min_leaf_extent,
     idle |-> NULL_INDEX,
     len |-> 0]

\* get_or_create_node that leaves a recycled node the bound it had.
get_or_create_node_stale_aabb(t, aabb, parent) ==
    IF t.idle = NULL_INDEX
    THEN [t |-> [t EXCEPT !.nodes = Append(t.nodes, OctreeNode_new(aabb, parent))],
          index |-> Len(t.nodes) + 1]
    ELSE [t |-> [t EXCEPT !.idle = t.nodes[t.idle].parent,
                          !.nodes[t.idle].parent = parent],
          index |-> t.idle]

\* get_or_create_node that leaves a recycled node the parent field it had.
get_or_create_node_stale_parent(t, aabb, parent) ==
    IF t.idle = NULL_INDEX
    THEN [t |-> [t EXCEPT !.nodes = Append(t.nodes, OctreeNode_new(aabb, parent))],
          index |-> Len(t.nodes) + 1]
    ELSE [t |-> [t EXCEPT !.idle = t.nodes[t.idle].parent,
                          !.nodes[t.idle].aabb = aabb],
          index |-> t.idle]

get_or_create_node(t, aabb, parent) ==
    IF t.idle = NULL_INDEX
    THEN [t |-> [t EXCEPT !.nodes = Append(t.nodes, OctreeNode_new(aabb, parent))],
          index |-> Len(t.nodes) + 1]
    ELSE [t |-> [t EXCEPT !.idle = t.nodes[t.idle].parent,
                          !.nodes[t.idle].aabb = aabb,
                          !.nodes[t.idle].parent = parent],
          index |-> t.idle]

\* idles_node that unlinks the node without pushing it on the free list.
idles_node_unpushed(t, index, octant_index) ==
    LET parent_index == t.nodes[index].parent
    IN IF parent_index # NULL_INDEX
       THEN [t EXCEPT !.nodes[parent_index].children[octant_index] = NULL_INDEX,
                      !.nodes[parent_index].children_len = @ - 1]
       ELSE [t EXCEPT !.root = NULL_INDEX]

\* idles_node that leaves the parent's children_len as it was.
idles_node_uncounted(t, index, octant_index) ==
    LET parent_index == t.nodes[index].parent
        t1 == IF parent_index # NULL_INDEX
              THEN [t EXCEPT !.nodes[parent_index].children[octant_index] = NULL_INDEX]
              ELSE [t EXCEPT !.root = NULL_INDEX]
    IN [t1 EXCEPT !.nodes[index].parent = t1.idle, !.idle = index]

\* idles_node that pushes a parentless node on the free list and leaves it the
\* root.
idles_node_keeps_root(t, index, octant_index) ==
    LET parent_index == t.nodes[index].parent
        t1 == IF parent_index # NULL_INDEX
              THEN [t EXCEPT !.nodes[parent_index].children[octant_index] = NULL_INDEX,
                             !.nodes[parent_index].children_len = @ - 1]
              ELSE t
    IN [t1 EXCEPT !.nodes[index].parent = t1.idle, !.idle = index]

idles_node(t, index, octant_index) ==
    LET parent_index == t.nodes[index].parent
        t1 == IF parent_index # NULL_INDEX
              THEN [t EXCEPT !.nodes[parent_index].children[octant_index] = NULL_INDEX,
                             !.nodes[parent_index].children_len = @ - 1]
              ELSE [t EXCEPT !.root = NULL_INDEX]
    IN [t1 EXCEPT !.nodes[index].parent = t1.idle, !.idle = index]

\* The closure of try_extend without the old root's new parent.
extend_step_orphan(t, aabb) ==
    LET g == get_or_create_node(t, aabb, NULL_INDEX)
        index == g.index
        o == octant(aabb_sub(g.t.nodes[g.t.root].aabb, center(g.t.nodes[index].aabb)))
    IN IF ~o.some
       THEN [t |-> g.t, abort |-> TRUE]
       ELSE [t |-> [g.t EXCEPT !.nodes[index].children_len = @ + 1,
                               !.nodes[index].children[octant_to_index(o.val)] = g.t.root,
                               !.base_aabb = aabb,
                               !.root = index],
             abort |-> FALSE]

\* The closure of try_extend without the update of base_aabb.
extend_step_stale_bound(t, aabb) ==
    LET g == get_or_create_node(t, aabb, NULL_INDEX)
        index == g.index
        o == octant(aabb_sub(g.t.nodes[g.t.root].aabb, center(g.t.nodes[index].aabb)))
    IN IF ~o.some
       THEN [t |-> g.t, abort |-> TRUE]
       ELSE [t |-> [g.t EXCEPT !.nodes[g.t.root].parent = index,
                               !.nodes[index].children_len = @ + 1,
                               !.nodes[index].children[octant_to_index(o.val)] = g.t.root,
                               !.root = index],
             abort |-> FALSE]

\* The closure of try_extend without the link from the new root to the old.
extend_step_unlinked(t, aabb) ==
    LET g == get_or_create_node(t, aabb, NULL_INDEX)
        index == g.index
        o == octant(aabb_sub(g.t.nodes[g.t.root].aabb, center(g.t.nodes[index].aabb)))
    IN IF ~o.some
       THEN [t |-> g.t, abort |-> TRUE]
       ELSE [t |-> [g.t EXCEPT !.nodes[g.t.root].parent = index,
                               !.nodes[index].children_len = @ + 1,
                               !.base_aabb = aabb,
                               !.root = index],
             abort |-> FALSE]

\* One call of the closure try_extend hands to extend_for.
extend_step(t, aabb) ==
    LET g == get_or_create_node(t, aabb, NULL_INDEX)
        index == g.index
        o == octant(aabb_sub(g.t.nodes[g.t.root].aabb, center(g.t.nodes[index].aabb)))
    IN IF ~o.some
       THEN [t |-> g.t, abort |-> TRUE]
       ELSE [t |-> [g.t EXCEPT !.nodes[g.t.root].parent = index,
                               !.nodes[index].children_len = @ + 1,
                               !.nodes[index].children[octant_to_index(o.val)] = g.t.root,
                               !.base_aabb = aabb,
                               !.root = index],
             abort |-> FALSE]

RECURSIVE extend_steps(_, _, _)
extend_steps(t, steps, k) ==
    IF k > Len(steps) THEN [t |-> t, abort |-> FALSE]
    ELSE LET r == extend_step(t, steps[k])
         IN IF r.abort THEN r ELSE extend_steps(r.t, steps, k + 1)

try_extend(t, aabb) ==
    IF t.root = NULL_INDEX
    THEN [t |-> [t EXCEPT !.base_aabb = extend(t.base_aabb, aabb)], abort |-> FALSE]
    ELSE extend_steps(t, extend_for(t.base_aabb, aabb), 1)

\* The loop of insert; ret is the value of BTreeSet::insert, abort an
\* out-of-range index into nodes.
RECURSIVE insert_loop(_, _, _, _, _, _)
insert_loop(t, index, parent_index, octant_index, node_aabb, e) ==
    IF index = NULL_INDEX /\ (\E i \in Axes : t.min_leaf_extent[i] > length(node_aabb)[i])
    THEN IF parent_index = NULL_INDEX
         THEN [t |-> t, ret |-> FALSE, abort |-> TRUE]
         ELSE [t |-> [t EXCEPT !.nodes[parent_index].entities = set_insert(@, e)],
               ret |-> ~set_contains(t.nodes[parent_index].entities, e.entity),
               abort |-> FALSE]
    ELSE LET g == IF index # NULL_INDEX
                  THEN [t |-> t, index |-> index]
                  ELSE get_or_create_node(t, node_aabb, parent_index)
             t1 == IF index # NULL_INDEX THEN t
                   ELSE IF parent_index = NULL_INDEX
                   THEN [g.t EXCEPT !.root = g.index]
                   ELSE [g.t EXCEPT !.nodes[parent_index].children_len = @ + 1,
                                    !.nodes[parent_index].children[octant_index] = g.index]
             node == t1.nodes[g.index]
             o == octant(aabb_sub(e.aabb, center(node.aabb)))
         IN IF o.some
            THEN insert_loop(t1, node.children[octant_to_index(o.val)], g.index,
                             octant_to_index(o.val), get_octant(node.aabb, o.val), e)
            ELSE [t |-> [t1 EXCEPT !.nodes[g.index].entities = set_insert(@, e)],
                  ret |-> ~set_contains(node.entities, e.entity),
                  abort |-> FALSE]

\* insert with the count raised on every call, whatever the set answered.
insert_counts_always(t, e) ==
    LET x == try_extend(t, e.aabb)
    IN IF x.abort THEN [t |-> x.t, ret |-> FALSE, abort |-> TRUE]
       ELSE LET r == insert_loop(x.t, x.t.root, NULL_INDEX, NULL_INDEX, x.t.base_aabb, e)
            IN IF r.abort THEN r
               ELSE [t |-> [r.t EXCEPT !.len = @ + 1],
                     ret |-> r.ret,
                     abort |-> FALSE]

\* The end of insert: r is what the loop left.
insert_count(r) ==
    IF r.abort THEN r
    ELSE [t |-> IF r.ret THEN [r.t EXCEPT !.len = @ + 1] ELSE r.t,
          ret |-> r.ret,
          abort |-> FALSE]

\* insert after its first line: x is what try_extend left.
insert_descend(x, e) ==
    IF x.abort THEN [t |-> x.t, ret |-> FALSE, abort |-> TRUE]
    ELSE insert_count(insert_loop(x.t, x.t.root, NULL_INDEX, NULL_INDEX, x.t.base_aabb, e))

insert(t, e) == insert_descend(try_extend(t, e.aabb), e)

\* abort is an out-of-range index into children (idles_node reached with a
\* parent but without an octant).
RECURSIVE remove_loop(_, _, _, _, _)
remove_loop(t, index, octant_index, entity, aabb) ==
    IF index = NULL_INDEX THEN [t |-> t, ret |-> FALSE, abort |-> FALSE]
    ELSE LET node == t.nodes[index]
         IN IF node.children_len = 0
            THEN LET t1 == [t EXCEPT !.nodes[index].entities = set_remove(@, entity)]
                     idles == t1.nodes[index].entities = {}
                 IN IF idles /\ node.parent # NULL_INDEX /\ octant_index \notin OctantIdx
                    THEN [t |-> t1, ret |-> FALSE, abort |-> TRUE]
                    ELSE [t |-> IF idles THEN idles_node(t1, index, octant_index) ELSE t1,
                          ret |-> set_contains(node.entities, entity),
                          abort |-> FALSE]
            ELSE LET o == octant(aabb_sub(aabb, center(node.aabb)))
                 IN IF o.some
                    THEN remove_loop(t, node.children[octant_to_index(o.val)],
                                     octant_to_index(o.val), entity, aabb)
                    ELSE [t |-> [t EXCEPT !.nodes[index].entities = set_remove(@, entity)],
                          ret |-> set_contains(node.entities, entity),
                          abort |-> FALSE]

\* remove with the count lowered on every call, whatever the set answered.
remove_counts_always(t, entity, aabb) ==
    LET r == remove_loop(t, t.root, NULL_INDEX, entity, aabb)
    IN [t |-> [r.t EXCEPT !.len = @ - 1],
        ret |-> r.ret,
        abort |-> r.abort]

remove(t, entity, aabb) ==
    LET r == remove_loop(t, t.root, NULL_INDEX, entity, aabb)
    IN [t |-> IF r.ret THEN [r.t EXCEPT !.len = @ - 1] ELSE r.t,
        ret |-> r.ret,
        abort |-> r.abort]

\* The elements of a BTreeSet<OctreeEntity> in iteration order (by entity).
RECURSIVE iter(_)
iter(s) ==
    IF s = {} THEN <<>>
    ELSE LET m == CHOOSE x \in s : \A y \in s : x.entity <= y.entity
         IN <<m>> \o iter(s \ {m})

\* The entities the visitor is called with for the local set of a node.
RECURSIVE report(_, _, _)
report(es, k, aabb) ==
    IF k > Len(es) THEN <<>>
    ELSE (IF _intersects(es[k].aabb, aabb) THEN <<es[k].entity>> ELSE <<>>)
         \o report(es, k + 1, aabb)

RECURSIVE _intersect_children(_, _, _, _)
_intersect_children(t, index, k, aabb) ==
    IF k > 7 THEN <<>>
    ELSE LET child_index == t.nodes[index].children[k]
             here == IF child_index = NULL_INDEX THEN <<>>
                     ELSE IF _intersects(t.nodes[child_index].aabb, aabb)
                     THEN report(iter(t.nodes[child_index].entities), 1, aabb)
                          \o _intersect_children(t, child_index, 0, aabb)
                     ELSE <<>>
         IN here \o _intersect_children(t, index, k + 1, aabb)

RECURSIVE intersect_loop(_, _, _)
intersect_loop(t, index, aabb) ==
    IF index = NULL_INDEX THEN <<>>
    ELSE LET node == t.nodes[index]
             o == octant(aabb_sub(aabb, center(node.aabb)))
         IN report(iter(node.entities), 1, aabb)
            \o (IF o.some
                THEN intersect_loop(t, get_child_index(node, o.val), aabb)
                ELSE _intersect_children(t, index, 0, aabb))

\* The sequence of entities the visitor f is called with.
_intersect(t, aabb) == intersect_loop(t, t.root, aabb)

\* The loop over the local entities of raycast_inner: <<ret, len>>.
RECURSIVE raycast_local(_, _, _, _, _)
raycast_local(es, k, ray, ret, len) ==
    IF k > Len(es) THEN <<ret, len>>
    ELSE LET c == intersects_ray(es[k].aabb, ray)
         IN IF c.some /\ c.val < len
            THEN raycast_local(es, k + 1, ray, Some(es[k]), c.val)
            ELSE raycast_local(es, k + 1, ray, ret, len)

\* raycast_inner returns [ret, len, pivot, hang]: len and pivot are the values
\* left in the two &mut f32, hang tells that the octant walk came back to an
\* <<octant, pivot>> it had already left, after which it repeats for ever.
\* With w = None this is a call of raycast_inner on node index; with
\* w = Some([oct, ret, seen]) it is one turn of the loop over the octants of
\* node index, at octant oct.
RECURSIVE raycast_inner(_, _, _, _, _, _)
raycast_inner(t, index, ray, len, pivot, w) ==
    IF index = NULL_INDEX
    THEN [ret |-> None, len |-> len, pivot |-> pivot, hang |-> FALSE]
    ELSE LET node == t.nodes[index]
             hit == intersects_ray_raw(node.aabb, ray)
         IN IF ~hit.some
            THEN [ret |-> None, len |-> len, pivot |-> pivot, hang |-> FALSE]
            ELSE IF ~w.some
            THEN LET loc == raycast_local(iter(node.entities), 1, ray, None, len)
                     o == octant_at(ray, pivot, node.aabb)
                     r == IF node.children_len # 0 /\ o.some
                          THEN raycast_inner(t, index, ray, loc[2], pivot,
                                   Some([oct |-> o.val, ret |-> loc[1], seen |-> {}]))
                          ELSE [ret |-> loc[1], len |-> loc[2], pivot |-> pivot,
                                hang |-> FALSE]
                 IN [ret |-> r.ret, len |-> r.len, pivot |-> hit.val[2], hang |-> r.hang]
            ELSE LET oct == w.val.oct
                     child_index == get_child_index(node, oct)
                 IN IF <<oct, pivot>> \in w.val.seen
                    THEN [ret |-> w.val.ret, len |-> len, pivot |-> pivot, hang |-> TRUE]
                    ELSE LET r == IF child_index = NULL_INDEX
                                  THEN LET x == intersects_ray_raw(
                                                    get_octant(node.aabb, oct), ray)
                                       IN [ret |-> None, len |-> len,
                                           pivot |-> IF x.some THEN x.val[2]
                                                     ELSE hit.val[2],
                                           hang |-> FALSE]
                                  ELSE raycast_inner(t, child_index, ray, len, pivot, None)
                             nxt == next_octant(ray, oct, r.pivot, node.aabb)
                         IN IF r.hang \/ r.ret.some THEN r
                            ELSE IF nxt = oct
                            THEN [ret |-> w.val.ret, len |-> r.len, pivot |-> r.pivot,
                                  hang |-> FALSE]
                            ELSE raycast_inner(t, index, ray, r.len, r.pivot,
                                     Some([oct |-> nxt, ret |-> w.val.ret,
                                           seen |-> w.val.seen \cup {<<oct, pivot>>}]))

\* The closure of raycast: Option<RayHitInfo>, or hang when the call does
\* not return.
RayHitInfo_of(r) ==
    IF r.hang THEN [some |-> FALSE, hang |-> TRUE]
    ELSE IF r.ret.some
    THEN [some |-> TRUE, hang |-> FALSE,
          val |-> [entity |-> r.ret.val.entity, aabb |-> r.ret.val.aabb, t |-> r.len]]
    ELSE [some |-> FALSE, hang |-> FALSE]

raycast(t, ray) == RayHitInfo_of(raycast_inner(t, t.root, ray, Inf, 0, None))

(***************************************************************************)
(* The callers.  A scene fixes the arguments of Octree::new and the calls  *)
(* its caller makes.                                                       *)
(***************************************************************************)
MaxEntity == 2

Entities == 1..MaxEntity

cube(lo, hi) == AABB(splat(lo), splat(hi))

\* "grid": starting bound [0,8]^3, leaves of extent 4, boxes inside the bound.
\* "grow": the same tree, with a box outside the bound on the min side.
\* "both": the same tree, with boxes outside the bound on both sides.
\* "small": the starting bound [0,2]^3 is smaller than the minimum leaf.
\* "pair": the two-box scenario, one unit of the model being 1/40.
\* "wide": the starting bound [-2^24,2]^3, whose growth toward min needs more
\*         than 24 significant bits; no node below the root is large enough.
\* "skew": the starting bound [-16777218,2]^3, whose growth toward min rounds
\*         the new min and the new center away from the old root's face.
Scenes == {"grid", "grow", "both", "small", "pair", "wide", "skew"}

StartAabb(sc) ==
    CASE sc \in {"grid", "grow", "both"} -> cube(0, 8)
      [] sc = "small" -> cube(0, 2)
      [] sc = "pair" -> cube(-40, 40)
      [] sc = "wide" -> cube(-16777216, 2)
      [] sc = "skew" -> cube(-16777218, 2)

StartMinLeafExtent(sc) ==
    CASE sc = "wide" -> splat(16777218)
      [] sc = "skew" -> splat(16777220)
      [] OTHER -> splat(4)

BoxA == cube(8, 12)

BoxB == cube(-12, -8)

\* Outside [0,8]^3 on the min side; straddles the center of [-8,8]^3.
OutMin == AABB(<<-3, -1, -1>>, <<-1, 1, 1>>)

\* Outside [0,8]^3 on the max side; straddles the center of [0,16]^3.
OutMax == AABB(<<9, 7, 7>>, <<11, 9, 9>>)

InsertCalls(sc) ==
    CASE sc = "grid" ->
           Entities \X { cube(1, 3), cube(3, 5), AABB(<<5, 1, 1>>, <<7, 3, 3>>) }
      [] sc = "grow" -> Entities \X { cube(1, 3), cube(3, 5), OutMin }
      [] sc = "both" ->
           { <<1, OutMin>>, <<1, OutMax>>, <<2, cube(1, 3)>>, <<2, cube(0, 2)>> }
      [] sc = "small" -> Entities \X { cube(0, 2), cube(1, 3) }
      [] sc = "pair" -> { <<1, BoxA>>, <<2, BoxB>> }
      [] sc = "wide" ->
           { <<1, cube(-8388609, -8388605)>>, <<2, cube(-16777220, -16777218)>> }
      [] sc = "skew" ->
           { <<1, cube(-8388610, -8388606)>>, <<2, cube(-16777220, -16777218)>> }

\* The caller of "pair" only inserts.
RemoveCalls(sc) == IF sc = "pair" THEN {} ELSE InsertCalls(sc)

Rays(sc) ==
    CASE sc = "grid" -> { Ray(<<-2, 2, 2>>, <<1, 0, 0>>), Ray(<<5, -2, -1>>, <<-1, 1, 1>>) }
      [] sc = "grow" -> { Ray(<<-5, 0, 0>>, <<1, 0, 0>>), Ray(<<4, 4, 12>>, <<0, 0, -1>>) }
      [] sc = "both" -> { Ray(<<-5, 0, 0>>, <<1, 0, 0>>) }
      [] sc = "small" -> { Ray(<<-1, 1, 1>>, <<1, 0, 0>>) }
      [] sc = "pair" -> { Ray(<<-200, 10, 10>>, <<1, 0, 0>>) }
      [] sc \in {"wide", "skew"} -> {}

Queries(sc) ==
    CASE sc = "grid" -> { cube(1, 3), cube(2, 6) }
      [] sc = "grow" -> { cube(-2, 2), cube(1, 3) }
      [] sc = "both" -> { cube(-2, 10) }
      [] sc = "small" -> { cube(0, 4) }
      [] sc = "pair" -> { cube(0, 20), cube(-10, 10) }
      [] sc = "wide" -> { cube(-8388608, 0) }
      [] sc = "skew" -> { cube(-16777224, -16777218) }

VARIABLES
    scene,            \* the caller's scene
    root,             \* Octree.root
    base_aabb,        \* Octree.base_aabb
    nodes,            \* Octree.nodes
    min_leaf_extent,  \* Octree.min_leaf_extent
    idle,             \* Octree.idle
    len,              \* Octree.len
    ret,              \* the last call and what it returned
    aborted           \* a call panicked or never returned: the program is over

tree == <<root, base_aabb, nodes, min_leaf_extent, idle, len>>

vars == <<scene, root, base_aabb, nodes, min_leaf_extent, idle, len, ret, aborted>>

\* The Octree value.
Self ==
    [root |-> root, base_aabb |-> base_aabb, nodes |-> nodes,
     min_leaf_extent |-> min_leaf_extent, idle |-> idle, len |-> len]

Becomes(t) ==
    /\ root' = t.root
    /\ base_aabb' = t.base_aabb
    /\ nodes' = t.nodes
    /\ min_leaf_extent' = t.min_leaf_extent
    /\ idle' = t.idle
    /\ len' = t.len

\* The record of a call: its name, its arguments, whether it returned (done is
\* FALSE when it panicked or never returned) and what it returned: `val` for
\* the bool of insert and remove, `reported` for the entities _intersect
\* handed to its callback, `hit` for the Option<RayHitInfo> of raycast.
Call(op, done) ==
    [op |-> op, done |-> done,
     entity |-> 0, aabb |-> cube(0, 0), ray |-> Ray(splat(0), splat(0)),
     val |-> FALSE, reported |-> <<>>, hit |-> None]

Init ==
    /\ scene \in Scenes
    /\ LET t == Octree_new(StartMinLeafExtent(scene), StartAabb(scene))
       IN /\ root = t.root
          /\ base_aabb = t.base_aabb
          /\ nodes = t.nodes
          /\ min_leaf_extent = t.min_leaf_extent
          /\ idle = t.idle
          /\ len = t.len
    /\ ret = Call("new", TRUE)
    /\ aborted = FALSE

\* insert(OctreeEntity { entity, aabb })
Insert(entity, aabb) ==
    /\ ~aborted
    /\ \E r \in {insert(Self, OctreeEntity(entity, aabb))} :
          IF r.abort
          THEN /\ aborted' = TRUE
               /\ ret' = [Call("insert", FALSE) EXCEPT !.entity = entity, !.aabb = aabb]
               /\ UNCHANGED tree
          ELSE /\ Becomes(r.t)
               /\ ret' = [Call("insert", TRUE) EXCEPT
                            !.entity = entity, !.aabb = aabb, !.val = r.ret]
               /\ UNCHANGED aborted
    /\ UNCHANGED scene

\* remove(entity, aabb)
Remove(entity, aabb) ==
    /\ ~aborted
    /\ \E r \in {remove(Self, entity, aabb)} :
          IF r.abort
          THEN /\ aborted' = TRUE
               /\ ret' = [Call("remove", FALSE) EXCEPT !.entity = entity, !.aabb = aabb]
               /\ UNCHANGED tree
          ELSE /\ Becomes(r.t)
               /\ ret' = [Call("remove", TRUE) EXCEPT
                            !.entity = entity, !.aabb = aabb, !.val = r.ret]
               /\ UNCHANGED aborted
    /\ UNCHANGED scene

\* _intersect(aabb, f)
Intersect(aabb) ==
    /\ ~aborted
    /\ ret' = [Call("intersect", TRUE) EXCEPT
                 !.aabb = aabb, !.reported = _intersect(Self, aabb)]
    /\ UNCHANGED <<scene, tree, aborted>>

\* What a call of raycast that ended as r leaves in ret.
RaycastCall(ray, r) ==
    [Call("raycast", ~r.hang) EXCEPT
       !.ray = ray, !.hit = IF r.some THEN Some(r.val) ELSE None]

\* raycast(ray)
Raycast(ray) ==
    /\ ~aborted
    /\ ret' = RaycastCall(ray, raycast(Self, ray))
    /\ aborted' = ~ret'.done
    /\ UNCHANGED <<scene, tree>>

Next ==
    \/ \E c \in InsertCalls(scene) : Insert(c[1], c[2])
    \/ \E c \in RemoveCalls(scene) : Remove(c[1], c[2])
    \/ \E q \in Queries(scene) : Intersect(q)
    \/ \E r \in Rays(scene) : Raycast(r)

Spec == Init /\ [][Next]_vars

\* ---------------------------------------------------------------------------
\* What is stored, told from the arena
\* ---------------------------------------------------------------------------

RECURSIVE Desc(_, _)
\* The node `index` and every node below it.
Desc(t, index) ==
    {index} \cup
    UNION { Desc(t, t.nodes[index].children[k]) :
            k \in {j \in OctantIdx : t.nodes[index].children[j] # NULL_INDEX} }

\* The nodes reachable from the root.
Live(t) == IF t.root = NULL_INDEX THEN {} ELSE Desc(t, t.root)

\* The stored records, each with the node that holds it.
Stored(t) ==
    UNION { { [entity |-> e.entity, aabb |-> e.aabb, node |-> i] :
              e \in t.nodes[i].entities } : i \in Live(t) }

EntityStored(t, entity) == \E s \in Stored(t) : s.entity = entity

PairStored(t, entity, aabb) ==
    \E s \in Stored(t) : s.entity = entity /\ s.aabb = aabb

RECURSIVE SumOver(_, _)
SumOver(f, S) ==
    IF S = {} THEN 0
    ELSE LET x == CHOOSE y \in S : TRUE IN f[x] + SumOver(f, S \ {x})

\* The sum of the sizes of the local sets of the live nodes.
LocalSizes(t) ==
    SumOver([i \in Live(t) |-> Cardinality(t.nodes[i].entities)], Live(t))

\* A step that is a call of `op` which returned.
Returned(op) == ret'.op = op /\ ret'.done

\* ---------------------------------------------------------------------------
\* C1
\* ---------------------------------------------------------------------------

\* C1: inserting a box under a handle that is not stored returns true and
\* raises the count by one, and removing a stored (handle, box) pair returns
\* true and lowers the count by one, whatever growth, insertions and removals
\* of other handles lie between the two calls.
C1_RoundTrip ==
    [][ /\ (ret'.op = "insert" /\ ~EntityStored(Self, ret'.entity))
           => (ret'.done /\ ret'.val = TRUE /\ len' = len + 1)
        /\ (ret'.op = "remove" /\ PairStored(Self, ret'.entity, ret'.aabb))
           => (ret'.done /\ ret'.val = TRUE /\ len' = len - 1) ]_vars

\* The round trip of C1 for the calls of insert that return.
C1_RoundTripWhereInsertReturns ==
    [][ /\ (Returned("insert") /\ ~EntityStored(Self, ret'.entity))
           => (ret'.val = TRUE /\ len' = len + 1)
        /\ (ret'.op = "remove" /\ PairStored(Self, ret'.entity, ret'.aabb))
           => (ret'.done /\ ret'.val = TRUE /\ len' = len - 1) ]_vars

\* ---------------------------------------------------------------------------
\* C2
\* ---------------------------------------------------------------------------

\* C2: remove called with a handle that is not stored returns false and leaves
\* the count, the root, the arena, the free list and the base bound unchanged.
C2_RemoveAbsent ==
    [][ (ret'.op = "remove" /\ ~EntityStored(Self, ret'.entity))
        => (ret'.done /\ ret'.val = FALSE /\ UNCHANGED tree) ]_vars

\* The part of C2 about the returned value and the count.
C2_RemoveAbsentReturnsFalse ==
    [][ (ret'.op = "remove" /\ ~EntityStored(Self, ret'.entity))
        => (ret'.done /\ ret'.val = FALSE /\ len' = len) ]_vars

\* ---------------------------------------------------------------------------
\* C3
\* ---------------------------------------------------------------------------

\* C3: inserting a (handle, box) pair that is already stored returns false and
\* changes nothing: count, root, arena, free list and base bound stay as they were.
C3_InsertStoredPair ==
    [][ (ret'.op = "insert" /\ PairStored(Self, ret'.entity, ret'.aabb))
        => (ret'.done /\ ret'.val = FALSE /\ UNCHANGED tree) ]_vars

\* An insert of a stored pair has returned false, in a tree of several nodes
\* that has grown or holds another record as well.
C3_Witness ==
    /\ ret.op = "insert" /\ ret.done /\ ~ret.val
    /\ PairStored(Self, ret.entity, ret.aabb)
    /\ len >= 2
    /\ Cardinality(Live(Self)) >= 2

\* ---------------------------------------------------------------------------
\* C4
\* ---------------------------------------------------------------------------

\* C4: the count (len) equals the sum, over the nodes reachable from the root,
\* of the sizes of their local entity sets.
C4_LenIsSum == len = LocalSizes(Self)

\* A removal has returned true and left records in two different nodes.
C4_Witness ==
    /\ ret.op = "remove" /\ ret.done /\ ret.val = TRUE
    /\ len = 2
    /\ \E s1, s2 \in Stored(Self) : s1.node # s2.node

\* ---------------------------------------------------------------------------
\* C5
\* ---------------------------------------------------------------------------

\* C5: every handle is stored in at most one live node, also after insert is
\* called with a stored handle and a different box.
C5_OneNodePerEntity ==
    \A h \in Entities : Cardinality({s \in Stored(Self) : s.entity = h}) <= 1

\* ---------------------------------------------------------------------------
\* C6
\* ---------------------------------------------------------------------------

\* inner lies within outer, bounds included.
Contains(outer, inner) ==
    \A i \in Axes : outer.min[i] <= inner.min[i] /\ inner.max[i] <= outer.max[i]

\* The boxes intersect is asked about when the tree is examined.
ProbeQueries(sc) ==
    Queries(sc) \cup {c[2] : c \in InsertCalls(sc)} \cup {StartAabb(sc), cube(-16, 16)}

Reports(reported, entity) == \E k \in DOMAIN reported : reported[k] = entity

\* C6: after insert(h, b) returns, also for a box b entirely outside the base
\* bound, the base bound contains b, and every record stored before the call
\* is still stored in the same node, that node is reachable from the root,
\* and intersect still reports the entity for a query overlapping its box.
C6_InsertKeepsContent ==
    [][ Returned("insert") =>
        \A before \in {Stored(Self)} : \A after \in {Self'} :
          /\ Contains(after.base_aabb, ret'.aabb)
          /\ before \subseteq Stored(after)
          /\ \A q \in ProbeQueries(scene) : \A reported \in {_intersect(after, q)} :
               \A s \in before : _intersects(s.aabb, q) => Reports(reported, s.entity) ]_vars

\* The same for the trees whose growth steps are exact in f32.
C6_InsertKeepsContentWhereExact ==
    [][ scene # "skew" /\ Returned("insert") =>
        \A before \in {Stored(Self)} : \A after \in {Self'} :
          /\ Contains(after.base_aabb, ret'.aabb)
          /\ before \subseteq Stored(after)
          /\ \A q \in ProbeQueries(scene) : \A reported \in {_intersect(after, q)} :
               \A s \in before : _intersects(s.aabb, q) => Reports(reported, s.entity) ]_vars

\* An insert of a box entirely outside the starting bound has returned true in
\* a tree that held a record below the old root, so the root has grown above it.
C6_Witness ==
    /\ ret.op = "insert" /\ ret.done /\ ret.val
    /\ ~_intersects(ret.aabb, StartAabb(scene))
    /\ base_aabb # StartAabb(scene)
    /\ \E s \in Stored(Self) :
         /\ s.entity # ret.entity
         /\ s.node # root
         /\ Contains(StartAabb(scene), s.aabb)

\* ---------------------------------------------------------------------------
\* C7
\* ---------------------------------------------------------------------------

Times(reported, entity) == Cardinality({k \in DOMAIN reported : reported[k] = entity})

\* What intersect(q) reported against the stored handles: a handle with a
\* stored box overlapping q is reported once, any other handle never.
IntersectExact(t, q, reported) ==
    \A h \in Entities :
      Times(reported, h) =
        IF \E s \in Stored(t) : s.entity = h /\ _intersects(s.aabb, q) THEN 1 ELSE 0

\* What intersect(q) reported against the stored records: every record whose
\* box overlaps q is reported once, no other record is.
IntersectExactOnRecords(t, q, reported) ==
    \A h \in Entities :
      Times(reported, h) =
        Cardinality({s \in Stored(t) : s.entity = h /\ _intersects(s.aabb, q)})

\* C7: for every query box q, intersect reports exactly the stored handles
\* whose box overlaps q (min < q.max and max > q.min on every axis), each of
\* them once, whether q falls into one octant of a node or straddles.
C7_IntersectExact ==
    \A q \in ProbeQueries(scene) : IntersectExact(Self, q, _intersect(Self, q))

\* C7 counted on stored records instead of handles.
C7_IntersectExactOnRecords ==
    \A q \in ProbeQueries(scene) : IntersectExactOnRecords(Self, q, _intersect(Self, q))

\* ---------------------------------------------------------------------------
\* C8, C9
\* ---------------------------------------------------------------------------

\* The rays raycast is asked about when the tree is examined.
ProbeRays(sc) ==
    Rays(sc) \cup
    CASE sc = "grid" -> { Ray(<<1, -3, 2>>, <<1, 1, 0>>), Ray(<<4, 4, 10>>, <<0, 0, -1>>) }
      [] sc = "grow" -> { Ray(<<-10, -10, -2>>, <<1, 1, 1>>) }
      [] OTHER -> {}

\* The distances at which `ray` hits the stored boxes.
Hits(t, ray) ==
    { intersects_ray(s.aabb, ray).val :
      s \in {x \in Stored(t) : intersects_ray(x.aabb, ray).some} }

SetMin(S) == CHOOSE x \in S : \A y \in S : x <= y

\* r is what raycast(ray) ended with: when some stored box is hit, r is a
\* stored pair hit at the smallest distance.
RaycastNearest(t, ray, r) ==
    Hits(t, ray) # {} =>
      /\ r.some
      /\ r.val.t = SetMin(Hits(t, ray))
      /\ PairStored(t, r.val.entity, r.val.aabb)
      /\ intersects_ray(r.val.aabb, ray) = Some(r.val.t)

\* C8: if the ray hits the box of at least one stored entity, raycast returns
\* Some with an entity whose hit distance is the minimum over the stored
\* entities; it returns None only when no stored box is hit.
C8_RaycastNearest ==
    \A ray \in ProbeRays(scene) : RaycastNearest(Self, ray, raycast(Self, ray))

\* r is what raycast(ray) ended with: a returned hit is a stored pair that
\* the ray hits at the returned, positive distance.
RaycastSound(t, ray, r) ==
    r.some =>
      /\ PairStored(t, r.val.entity, r.val.aabb)
      /\ intersects_ray(r.val.aabb, ray) = Some(r.val.t)
      /\ r.val.t > 0

\* C9: when raycast returns Some(handle, box, t) the pair is stored, the ray
\* hits the box, t is box.intersects_ray(ray) and positive; and raycast
\* returns None on a tree without entities, whether its root is NULL or only
\* empty nodes remain.
C9_RaycastSound ==
    \A ray \in ProbeRays(scene) :
      /\ RaycastSound(Self, ray, raycast(Self, ray))
      /\ Stored(Self) = {} => raycast(Self, ray) = [some |-> FALSE, hang |-> FALSE]

\* The part of C9 about the calls that return Some.
C9_ReturnedHitIsStored ==
    \A ray \in ProbeRays(scene) : RaycastSound(Self, ray, raycast(Self, ray))

\* ---------------------------------------------------------------------------
\* C10
\* ---------------------------------------------------------------------------

\* Origin (-5, 0.25, 0.25) and direction (1, 0, 0) in units of 1/40.
ScenarioRay == Ray(<<-200, 10, 10>>, <<1, 0, 0>>)

NodeOf(t, entity) == (CHOOSE s \in Stored(t) : s.entity = entity).node

\* C10: on the tree with bound [-1,1]^3 and minimum leaf extent 0.1, after A
\* is inserted at [0.2,0.3]^3 the count is 1; after B is inserted at
\* [-0.3,-0.2]^3 as well the count is 2, A and B are in different nodes, and
\* the ray from (-5, 0.25, 0.25) along (1, 0, 0) returns A at distance 5.2
\* (208 in units of 1/40).
C10_Scenario ==
    scene = "pair" =>
      /\ (PairStored(Self, 1, BoxA) /\ ~EntityStored(Self, 2)) => len = 1
      /\ (PairStored(Self, 1, BoxA) /\ PairStored(Self, 2, BoxB)) =>
           /\ len = 2
           /\ NodeOf(Self, 1) # NodeOf(Self, 2)
           /\ raycast(Self, ScenarioRay) =
                [some |-> TRUE, hang |-> FALSE,
                 val |-> [entity |-> 1, aabb |-> BoxA, t |-> 208]]

\* A was inserted, then B, and the ray of the scenario was cast.
C10_Witness ==
    /\ scene = "pair"
    /\ EntityStored(Self, 1) /\ EntityStored(Self, 2)
    /\ nodes[NodeOf(Self, 1)].parent # NULL_INDEX
    /\ NodeOf(Self, 1) < NodeOf(Self, 2)
    /\ ret.op = "raycast" /\ ret.ray = ScenarioRay /\ ret.done /\ ret.hit.some

\* ---------------------------------------------------------------------------
\* C11
\* ---------------------------------------------------------------------------

\* C11: every call of insert, remove, intersect and raycast returns: none
\* aborts on an index out of range or a failed expect, also not the first
\* insert into an empty tree whose bound is smaller than min_leaf_extent.
C11_EveryCallReturns == ret.done /\ ~aborted

\* ---------------------------------------------------------------------------
\* C12
\* ---------------------------------------------------------------------------

ChildSlots(node) == {k \in OctantIdx : node.children[k] # NULL_INDEX}

\* C12: the children_len of every live node is the number of its child slots
\* that are not NULL.
C12_ChildrenLen ==
    \A i \in Live(Self) : nodes[i].children_len = Cardinality(ChildSlots(nodes[i]))

\* A removal has recycled a node below a root that keeps a child.
C12_Witness ==
    /\ ret.op = "remove" /\ ret.done /\ ret.val
    /\ idle # NULL_INDEX
    /\ root # NULL_INDEX
    /\ nodes[root].children_len = 1
    /\ nodes[idle].parent = NULL_INDEX

\* ---------------------------------------------------------------------------
\* C13
\* ---------------------------------------------------------------------------

\* C13: whenever the root is not NULL, base_aabb is the bound of the root
\* node: after the root is created, after growth, and after the root was
\* recycled and a later insert made a root again.
C13_BaseIsRootBound == root # NULL_INDEX => base_aabb = nodes[root].aabb

\* After growth every other node of the arena has been recycled, and an insert
\* has returned true with the grown root as the only live node.
C13_Witness ==
    /\ ret.op = "insert" /\ ret.done /\ ret.val
    /\ base_aabb # StartAabb(scene)
    /\ Len(nodes) >= 3
    /\ Live(Self) = {root}

\* ---------------------------------------------------------------------------
\* C18
\* ---------------------------------------------------------------------------

\* The octant box `sub` is too small for a node of its own: smaller than
\* min_leaf_extent on some axis, or, with orEqual, not larger on some axis.
TooSmall(sub, t, orEqual) ==
    \E i \in Axes :
      IF orEqual THEN length(sub)[i] <= t.min_leaf_extent[i]
      ELSE length(sub)[i] < t.min_leaf_extent[i]

RECURSIVE Descent(_, _, _, _)
\* The nodes from `index` down to the first one at which `aabb` does not fall
\* into one octant or the octant is too small; NULL_INDEX ends the sequence
\* when the child to go on with is missing.
Descent(t, index, aabb, orEqual) ==
    LET node == t.nodes[index]
        o == octant(aabb_sub(aabb, center(node.aabb)))
    IN IF ~o.some THEN <<index>>
       ELSE IF TooSmall(get_octant(node.aabb, o.val), t, orEqual) THEN <<index>>
       ELSE IF node.children[octant_to_index(o.val)] = NULL_INDEX
       THEN <<index, NULL_INDEX>>
       ELSE <<index>> \o Descent(t, node.children[octant_to_index(o.val)], aabb, orEqual)

\* An insert of e that returned true took the tree from `before` to `after`:
\* e is in the last node of the descent, and every node of the descent that
\* was not live before has the bound of its parent's octant, the parent as
\* parent, and has raised the children_len of a parent that was live by one.
InsertPlaces(before, after, e, path) ==
    /\ path[Len(path)] # NULL_INDEX
    /\ Stored(after) \ Stored(before) =
         {[entity |-> e.entity, aabb |-> e.aabb, node |-> path[Len(path)]]}
    /\ \A k \in 2..Len(path) :
         path[k] \notin Live(before) =>
           /\ \E o \in BVec3 :
                /\ octant(aabb_sub(e.aabb, center(after.nodes[path[k - 1]].aabb))) = Some(o)
                /\ after.nodes[path[k]].aabb = get_octant(after.nodes[path[k - 1]].aabb, o)
           /\ after.nodes[path[k]].parent = path[k - 1]
           /\ after.nodes[path[k - 1]].children_len =
                Cardinality(ChildSlots(after.nodes[path[k - 1]]))
           /\ path[k - 1] \in Live(before) =>
                after.nodes[path[k - 1]].children_len =
                  before.nodes[path[k - 1]].children_len + 1

\* C18: insert stores (handle, box) in the first node on the descent from the
\* root at which the box does not fall into one octant or the octant's box is
\* not larger than min_leaf_extent on every axis; the missing children on the
\* way are created with the bound get_octant of their parent, linked in the
\* parent's slot, the parent's children_len raised by one.
C18_InsertPlace ==
    [][ (Returned("insert") /\ ret'.val) =>
        \A before \in {Self} : \A after \in {Self'} :
          InsertPlaces(before, after, OctreeEntity(ret'.entity, ret'.aabb),
                       Descent(after, after.root, ret'.aabb, TRUE)) ]_vars

\* C18 with the descent ending where the octant's box is smaller than
\* min_leaf_extent on some axis: an octant exactly as large as
\* min_leaf_extent still gets a node of its own.
C18_InsertPlaceAtLeastMinLeaf ==
    [][ (Returned("insert") /\ ret'.val) =>
        \A before \in {Self} : \A after \in {Self'} :
          InsertPlaces(before, after, OctreeEntity(ret'.entity, ret'.aabb),
                       Descent(after, after.root, ret'.aabb, FALSE)) ]_vars

\* An insert has stored its box in a node exactly as large as min_leaf_extent,
\* in which the box falls into one octant that is too small for a node.
C18_Witness ==
    /\ ret.op = "insert" /\ ret.done /\ ret.val
    /\ \E s \in Stored(Self) :
         /\ s.entity = ret.entity /\ s.aabb = ret.aabb
         /\ s.node # root
         /\ length(nodes[s.node].aabb) = min_leaf_extent
         /\ octant(aabb_sub(s.aabb, center(nodes[s.node].aabb))).some

\* ---------------------------------------------------------------------------
\* C19
\* ---------------------------------------------------------------------------

\* Node n of `before` has been unlinked and pushed on the free list, and
\* nothing else has changed but the local set of n.
Recycled(before, after, n) ==
    /\ after.idle = n
    /\ after.nodes[n] = [before.nodes[n] EXCEPT !.entities = {}, !.parent = before.idle]
    /\ Live(after) = Live(before) \ {n}
    /\ IF n = before.root
       THEN /\ after.root = NULL_INDEX
            /\ \A i \in DOMAIN before.nodes : i # n => after.nodes[i] = before.nodes[i]
       ELSE /\ after.root = before.root
            /\ \E k \in OctantIdx :
                 /\ before.nodes[before.nodes[n].parent].children[k] = n
                 /\ after.nodes[before.nodes[n].parent] =
                      [before.nodes[before.nodes[n].parent] EXCEPT
                         !.children[k] = NULL_INDEX, !.children_len = @ - 1]
            /\ \A i \in DOMAIN before.nodes :
                 i \notin {n, before.nodes[n].parent} => after.nodes[i] = before.nodes[i]

\* Node n of `before` has lost the record r and nothing else has changed.
Kept(before, after, n, r) ==
    /\ after.idle = before.idle
    /\ after.root = before.root
    /\ after.nodes =
         [before.nodes EXCEPT ![n].entities = @ \ {[entity |-> r.entity, aabb |-> r.aabb]}]

\* A remove that returned true took the tree from `before` to `after`.
RemoveRecycles(before, after) ==
    /\ DOMAIN after.nodes = DOMAIN before.nodes
    /\ after.base_aabb = before.base_aabb
    /\ \E r \in Stored(before) :
         /\ Stored(before) \ Stored(after) = {r}
         /\ IF before.nodes[r.node].entities = {[entity |-> r.entity, aabb |-> r.aabb]}
               /\ before.nodes[r.node].children_len = 0
            THEN Recycled(before, after, r.node)
            ELSE Kept(before, after, r.node, r)

\* C19: when remove succeeds and leaves the owning node without entities and
\* without children, exactly that node is unlinked from its parent's slot
\* (the parent's children_len drops by one, or the root becomes NULL) and
\* pushed on the free list; no other node is recycled, not even a parent that
\* is now empty and childless; a node that keeps entities or children stays.
C19_RemoveRecycles ==
    [][ (Returned("remove") /\ ret'.val) =>
        \A before \in {Self} : \A after \in {Self'} : RemoveRecycles(before, after) ]_vars

\* A remove has recycled a node and left its parent live, empty and childless.
C19_Witness ==
    /\ ret.op = "remove" /\ ret.done /\ ret.val
    /\ idle # NULL_INDEX
    /\ \E i \in Live(Self) :
         /\ nodes[i].entities = {}
         /\ nodes[i].children_len = 0
         /\ \E o \in BVec3 : nodes[idle].aabb = get_octant(nodes[i].aabb, o)

\* ---------------------------------------------------------------------------
\* C20
\* ---------------------------------------------------------------------------

\* The boxes the root is grown for when the tree is examined: the boxes of the
\* caller, and boxes that take several steps toward min, toward max and both.
GrowthProbes(sc) ==
    {c[2] : c \in InsertCalls(sc)} \cup
    IF sc \in {"wide", "skew"} THEN {}
    ELSE { cube(-20, -18), cube(30, 34), AABB(<<-3, 1, 1>>, <<1, 3, 20>>) }

\* r is what the closure of try_extend, called with the grown box aabb, made
\* of the tree t.
GrowthStep(t, aabb, r) ==
    /\ ~r.abort
    /\ r.t.root \notin Live(t)
    /\ r.t.base_aabb = aabb
    /\ r.t.nodes[r.t.root].aabb = aabb
    /\ r.t.nodes[r.t.root].parent = NULL_INDEX
    /\ r.t.nodes[r.t.root].children_len = 1
    /\ ChildSlots(r.t.nodes[r.t.root]) =
         {octant_to_index([i \in Axes |-> aabb.min[i] < t.base_aabb.min[i]])}
    /\ \A k \in ChildSlots(r.t.nodes[r.t.root]) : r.t.nodes[r.t.root].children[k] = t.root
    /\ octant(aabb_sub(t.nodes[t.root].aabb, center(aabb))) =
         Some([i \in Axes |-> aabb.min[i] < t.base_aabb.min[i]])
    /\ (aabb.min = t.base_aabb.min) # (aabb.max = t.base_aabb.max)
    /\ r.t.nodes[t.root] = [t.nodes[t.root] EXCEPT !.parent = r.t.root]
    /\ \A i \in DOMAIN t.nodes : i \notin {t.root, r.t.root} => r.t.nodes[i] = t.nodes[i]
    /\ Live(r.t) = Live(t) \cup {r.t.root}

RECURSIVE Growth(_, _, _)
\* Every step of the growth of t through the boxes steps[k], steps[k+1], ...
Growth(t, steps, k) ==
    k > Len(steps) \/
    \A r \in {extend_step(t, steps[k])} :
      GrowthStep(t, steps[k], r) /\ Growth(r.t, steps, k + 1)

\* C20: each growth step of try_extend on a tree with a root takes one node
\* with parent NULL and the grown box as bound, links the old root as its only
\* child in the slot of the octant the old root has relative to the new
\* center (all-positive when growing toward min, all-negative toward max),
\* makes the new node the parent of the old root and the root; the
\* classification of the old root never fails.
C20_GrowthStep ==
    root # NULL_INDEX =>
      \A b \in GrowthProbes(scene) : Growth(Self, extend_for(base_aabb, b), 1)

\* The root has grown toward min and then toward max: the old root is the
\* all-positive child of the all-negative child of the root.
C20_Witness ==
    /\ ret.op = "insert" /\ ret.done /\ ret.val
    /\ root # NULL_INDEX
    /\ nodes[root].children[0] # NULL_INDEX
    /\ nodes[nodes[root].children[0]].children[7] # NULL_INDEX
    /\ nodes[nodes[nodes[root].children[0]].children[7]].aabb = StartAabb(scene)

\* ---------------------------------------------------------------------------
\* The box and ray primitives on their own
\* ---------------------------------------------------------------------------

\* The components a caller of AABB::new hands in.
NewComponents == {0, 1, NaN}

NewVecs == {<<x, y, z>> : x \in NewComponents, y \in {0, 1}, z \in NewComponents}

\* The boxes a caller splits: boxes on the grid, the bound of "wide", and a
\* box whose min and max are neighbouring f32 values.
OctantBoxes ==
    { cube(0, 2), AABB(<<0, 0, 0>>, <<2, 4, 6>>), AABB(<<-4, 1, -2>>, <<2, 3, 0>>),
      cube(-16777216, 2), cube(16777216, 16777218) }

\* The pairs of boxes a caller tests for overlap: two boxes, and boxes of
\* extent 2 that are apart from them, touch them or reach into them.
OverlapPairs ==
    { cube(0, 2), AABB(<<0, 0, 0>>, <<1, 2, 3>>) } \X
    { AABB(<<x, y, z>>, <<x + 2, y + 2, z + 2>>) : x \in {-3, -2, 0, 1, 2}, y \in {-2, 0, 2}, z \in {-2, 1, 3} }

RayBox == AABB(<<0, 0, 0>>, <<4, 2, 6>>)

FarBox == cube(16777218, 16777230)

\* The box and ray pairs a caller tests: rays on the grid around RayBox, in
\* every direction with components in {-1, 0, 1}, and a ray from near the
\* origin toward FarBox.
RayPairs ==
    ({RayBox} \X
       { Ray(<<x, y, z>>, d) :
           x \in {-2, 0, 1, 4}, y \in {-1, 1, 2}, z \in {-2, 3, 7},
           d \in {e \in [Axes -> {-1, 0, 1}] : e # splat(0)} })
    \cup { <<FarBox, Ray(<<-1, 16777220, 16777220>>, <<1, 0, 0>>)>> }

\* The pairs (self, other) a caller grows a box for: boxes on the grid with
\* boxes inside, beside and far from them, the bound of "wide", and a box of
\* extent 2 at -2^25 with a box below it.
ExtendPairs ==
    ({ cube(0, 8), AABB(<<0, 0, 0>>, <<2, 4, 6>>) } \X
       { AABB(<<x, y, z>>, <<x + 2, y + 2, z + 2>>) :
           x \in {-20, -3, 1, 9}, y \in {-3, 1, 30}, z \in {1, 5} })
    \cup { <<cube(-16777216, 2), cube(-16777220, -16777218)>>,
           <<cube(-33554432, -33554430), cube(-33554440, -33554436)>> }

\* The boxes a caller classifies against the origin: on each axis the box is
\* below zero, ends at zero, straddles zero, starts at zero or is above zero.
OctantSpans == {<<-2, -1>>, <<-1, 0>>, <<-1, 1>>, <<0, 1>>, <<1, 2>>}

SignBoxes ==
    { AABB(<<x[1], y[1], z[1]>>, <<x[2], y[2], z[2]>>) :
        x \in OctantSpans, y \in OctantSpans, z \in OctantSpans }

\* The walks a caller continues in the bound [0,8]^3: the ray, the pivot and
\* the octant the walk is in.
WalkBound == cube(0, 8)

WalkCalls ==
    { <<Ray(<<x, y, z>>, d), pivot, o>> :
        x \in {0, 4, 5}, y \in {2, 4}, z \in {1, 4, 8},
        d \in {<<1, 0, 0>>, <<1, 1, 0>>, <<-1, 1, 1>>, <<0, -1, 1>>},
        pivot \in {0, 2}, o \in BVec3 }

\* The record of a call of a primitive: its name, its arguments (a and b for
\* boxes, ray, pivot and sign for a walk), whether it has been made, and what
\* it returned: `val` for a bool, `octs` for the boxes of get_octant, `t` for
\* an Option<f32>, `raw` for an Option<(f32, f32)>, `oct` for an
\* Option<BVec3>, `next` for a BVec3, `steps` for the boxes handed to a
\* callback.
PureCall(op, a, b, ray) ==
    [op |-> op, done |-> FALSE, a |-> a, b |-> b, ray |-> ray,
     pivot |-> 0, sign |-> [i \in Axes |-> FALSE],
     val |-> FALSE, octs |-> [s \in BVec3 |-> cube(0, 0)], t |-> None,
     raw |-> None, oct |-> None, next |-> [i \in Axes |-> FALSE], steps |-> <<>>]

PureCalls ==
    { PureCall("new", AABB(mn, mx), cube(0, 0), Ray(splat(0), splat(0))) :
        mn \in NewVecs, mx \in NewVecs }
    \cup { PureCall("get_octant", a, cube(0, 0), Ray(splat(0), splat(0))) : a \in OctantBoxes }
    \cup { PureCall("_intersects", c[1], c[2], Ray(splat(0), splat(0))) : c \in OverlapPairs }
    \cup { PureCall("intersects_ray", c[1], cube(0, 0), c[2]) : c \in RayPairs }
    \cup { PureCall("intersects_ray_raw", c[1], cube(0, 0), c[2]) : c \in RayPairs }
    \cup { PureCall("octant", a, cube(0, 0), Ray(splat(0), splat(0))) : a \in SignBoxes }
    \cup { [PureCall("next_octant", WalkBound, cube(0, 0), c[1]) EXCEPT
              !.pivot = c[2], !.sign = c[3]] : c \in WalkCalls }
    \cup { PureCall("extend_for", c[1], c[2], Ray(splat(0), splat(0))) : c \in ExtendPairs }

\* A caller that has an empty tree and is about to call one primitive.
InitPure ==
    /\ scene = "pure"
    /\ LET t == Octree_new(splat(4), cube(0, 8))
       IN /\ root = t.root
          /\ base_aabb = t.base_aabb
          /\ nodes = t.nodes
          /\ min_leaf_extent = t.min_leaf_extent
          /\ idle = t.idle
          /\ len = t.len
    /\ ret \in PureCalls
    /\ aborted = FALSE

\* AABB::new(min, max)
New ==
    /\ ret.op = "new" /\ ~ret.done
    /\ ret' = [ret EXCEPT !.done = TRUE, !.val = AABB_new_ok(ret.a.min, ret.a.max)]
    /\ aborted' = ~AABB_new_ok(ret.a.min, ret.a.max)
    /\ UNCHANGED <<scene, tree>>

\* a.get_octant(s) for every sign triple s; each ends in AABB::new.
GetOctant ==
    /\ ret.op = "get_octant" /\ ~ret.done
    /\ ret' = [ret EXCEPT !.done = TRUE, !.octs = [s \in BVec3 |-> get_octant(ret.a, s)]]
    /\ aborted' = \E s \in BVec3 :
                     ~AABB_new_ok(get_octant(ret.a, s).min, get_octant(ret.a, s).max)
    /\ UNCHANGED <<scene, tree>>

\* a._intersects(b)
Intersects ==
    /\ ret.op = "_intersects" /\ ~ret.done
    /\ ret' = [ret EXCEPT !.done = TRUE, !.val = _intersects(ret.a, ret.b)]
    /\ UNCHANGED <<scene, tree, aborted>>

\* a.intersects_ray(ray)
IntersectsRay ==
    /\ ret.op = "intersects_ray" /\ ~ret.done
    /\ ret' = [ret EXCEPT !.done = TRUE, !.t = intersects_ray(ret.a, ret.ray)]
    /\ UNCHANGED <<scene, tree, aborted>>

\* a.intersects_ray_raw(ray)
IntersectsRayRaw ==
    /\ ret.op = "intersects_ray_raw" /\ ~ret.done
    /\ ret' = [ret EXCEPT !.done = TRUE, !.raw = intersects_ray_raw(ret.a, ret.ray)]
    /\ UNCHANGED <<scene, tree, aborted>>

\* a.octant()
Octant ==
    /\ ret.op = "octant" /\ ~ret.done
    /\ ret' = [ret EXCEPT !.done = TRUE, !.oct = octant(ret.a)]
    /\ UNCHANGED <<scene, tree, aborted>>

\* ray.next_octant(sign, pivot, a)
NextOctant ==
    /\ ret.op = "next_octant" /\ ~ret.done
    /\ ret' = [ret EXCEPT !.done = TRUE,
                          !.next = next_octant(ret.ray, ret.sign, ret.pivot, ret.a)]
    /\ UNCHANGED <<scene, tree, aborted>>

\* Every step of the run self, steps[1], steps[2], ... has changed the box.
extend_for_returns(self, steps) ==
    \A k \in DOMAIN steps : steps[k] # (IF k = 1 THEN self ELSE steps[k - 1])

\* a.extend_for(b, on_step), on_step keeping the boxes it is handed.  The call
\* does not return when a step leaves the box as it was.
ExtendFor ==
    /\ ret.op = "extend_for" /\ ~ret.done /\ ~aborted
    /\ \E steps \in {extend_for(ret.a, ret.b)} :
         /\ ret' = [ret EXCEPT !.done = extend_for_returns(ret.a, steps),
                               !.steps = steps]
         /\ aborted' = ~ret'.done
    /\ UNCHANGED <<scene, tree>>

NextPure ==
    \/ New
    \/ GetOctant
    \/ Intersects
    \/ IntersectsRay
    \/ IntersectsRayRaw
    \/ Octant
    \/ NextOctant
    \/ ExtendFor

SpecPure == InitPure /\ [][NextPure]_vars

\* ---------------------------------------------------------------------------
\* C14
\* ---------------------------------------------------------------------------

\* Some component of the pair is NaN.
HasNaN(b) == \E i \in Axes : b.min[i] = NaN \/ b.max[i] = NaN

FFF == [i \in Axes |-> FALSE]

TTT == [i \in Axes |-> TRUE]

\* The eight boxes octs split the box a at its center: on every axis a box
\* spans [min, center] or [center, max] according to its sign alone, so the
\* union of the eight is a.
SplitsAtCenter(a, octs) ==
    \A i \in Axes :
      /\ 2 * octs[FFF].max[i] = a.min[i] + a.max[i]
      /\ a.min[i] < octs[FFF].max[i] /\ octs[FFF].max[i] < a.max[i]
      /\ \A s \in BVec3 :
           /\ octs[s].min[i] = IF s[i] THEN octs[FFF].max[i] ELSE a.min[i]
           /\ octs[s].max[i] = IF s[i] THEN a.max[i] ELSE octs[FFF].max[i]

\* No two of the eight boxes overlap, and each is classified as its own
\* octant relative to the center of a.
Partition(a, octs) ==
    /\ SplitsAtCenter(a, octs)
    /\ \A s, u \in BVec3 : s # u => ~_intersects(octs[s], octs[u])
    /\ \A s \in BVec3 : octant(aabb_sub(octs[s], center(a))) = Some(s)

\* C15: for every valid box, the eight boxes get_octant(s) cover the box
\* exactly, no two of them overlap under intersects, and
\* (get_octant(s) - center).octant() returns Some(s).
C15_OctantPartition ==
    (ret.op = "get_octant" /\ ret.done) => (~aborted /\ Partition(ret.a, ret.octs))

\* The same for the boxes every get_octant returns for.
C15_OctantPartitionWhereReturned ==
    (ret.op = "get_octant" /\ ret.done /\ ~aborted) => Partition(ret.a, ret.octs)

\* get_octant has split a box whose sums of min and max are rounded.
C15_Witness ==
    /\ ret.op = "get_octant" /\ ret.done /\ ~aborted
    /\ ret.a = cube(-16777216, 2)

\* ---------------------------------------------------------------------------
\* C16
\* ---------------------------------------------------------------------------

\* The open boxes a and b have a point in common: on every axis the larger
\* min lies below the smaller max.
InteriorsMeet(a, b) ==
    \A i \in Axes :
      (IF a.min[i] > b.min[i] THEN a.min[i] ELSE b.min[i]) <
        (IF a.max[i] < b.max[i] THEN a.max[i] ELSE b.max[i])

\* The closed boxes a and b have a point in common.
Touch(a, b) == \A i \in Axes : a.min[i] <= b.max[i] /\ b.min[i] <= a.max[i]

\* C16: intersects is symmetric, and it is true exactly when min < other.max
\* and max > other.min on every axis, so boxes that only share a face, an
\* edge or a corner do not intersect.
C16_IntersectsSymmetricExclusive ==
    (ret.op = "_intersects" /\ ret.done) =>
      /\ ret.val = _intersects(ret.b, ret.a)
      /\ ret.val <=> \A i \in Axes : ret.a.min[i] < ret.b.max[i] /\ ret.a.max[i] > ret.b.min[i]
      /\ ret.val <=> InteriorsMeet(ret.a, ret.b)

\* _intersects has answered false for two boxes that share a face only.
C16_Witness ==
    /\ ret.op = "_intersects" /\ ret.done /\ ~ret.val
    /\ Touch(ret.a, ret.b)
    /\ \E i \in Axes :
         /\ ret.a.max[i] = ret.b.min[i]
         /\ \A j \in Axes \ {i} : ret.a.min[j] < ret.b.max[j] /\ ret.b.min[j] < ret.a.max[j]

\* ---------------------------------------------------------------------------
\* C17
\* ---------------------------------------------------------------------------

\* The largest ray parameter looked at when telling whether a ray on the grid
\* passes through RayBox.
RayReach == 10

\* origin + dir * t in exact arithmetic.
PointExact(ray, t) == [i \in Axes |-> ray.origin[i] + ray.dir[i] * t]

InBox(p, b) == \A i \in Axes : b.min[i] <= p[i] /\ p[i] <= b.max[i]

\* The ray passes through the inside of b ahead of its origin: at some
\* multiple of one half the point is strictly inside.
Through(b, ray) ==
    \E h \in 1..(2 * RayReach) :
      \A i \in Axes :
        /\ 2 * b.min[i] < 2 * ray.origin[i] + ray.dir[i] * h
        /\ 2 * ray.origin[i] + ray.dir[i] * h < 2 * b.max[i]

\* How far an f32 of the magnitude of x can be from the number it stands
\* for: nothing while integers are exact, less than one gap beyond.
err(x) == ulp(Abs(x)) - 1

\* Within d of t the line enters b (going forward) or leaves it.
Enters(b, ray, t, d) ==
    \E e \in (t - d)..(t + d) :
      InBox(PointExact(ray, e), b) /\ ~InBox(PointExact(ray, e - 1), b)

Leaves(b, ray, t, d) ==
    \E e \in (t - d)..(t + d) :
      InBox(PointExact(ray, e), b) /\ ~InBox(PointExact(ray, e + 1), b)

\* p is within d of b and within d of one of its faces.
NearBoundary(p, b, d) ==
    /\ \A i \in Axes : b.min[i] - d <= p[i] /\ p[i] <= b.max[i] + d
    /\ \E i \in Axes : Abs(p[i] - b.min[i]) <= d \/ Abs(p[i] - b.max[i]) <= d

\* The answer v of intersects_ray is the entry parameter when the origin is
\* outside b and the exit parameter otherwise, within d, and point(v) is on
\* the boundary of b within d + dp.
RayHit(b, ray, v, d, dp) ==
    /\ IF InBox(ray.origin, b) THEN Leaves(b, ray, v, d) ELSE v > 0 /\ Enters(b, ray, v, d)
    /\ NearBoundary(point(ray, v), b, d + dp)

index_to_octant(k) == CHOOSE o \in BVec3 : octant_to_index(o) = k

\* C29: the bound of each live non-root node equals get_octant of its
\* parent's bound for the octant of the child slot it occupies, both for
\* children created by insert and for an old root re-parented by growth.
C29_ChildBoundIsOctant ==
    \A i \in Live(Self) : \A k \in ChildSlots(nodes[i]) :
      nodes[nodes[i].children[k]].aabb = get_octant(nodes[i].aabb, index_to_octant(k))

\* The same for the trees whose growth steps are exact in f32.
C29_ChildBoundIsOctantWhereExact ==
    scene # "skew" => C29_ChildBoundIsOctant

\* ---------------------------------------------------------------------------
\* C30
\* ---------------------------------------------------------------------------

\* C30: the box of every entity stored in a node's local set lies within that
\* node's bound.
C30_EntityWithinNode ==
    \A s \in Stored(Self) : Contains(nodes[s.node].aabb, s.aabb)

\* The same for the trees whose growth steps are exact in f32.
C30_EntityWithinNodeWhereExact ==
    scene # "skew" => C30_EntityWithinNode

\* ---------------------------------------------------------------------------
\* C22
\* ---------------------------------------------------------------------------

\* The free list from index on, following parent for at most fuel nodes.
RECURSIVE FreeList(_, _, _)
FreeList(t, index, fuel) ==
    IF index = NULL_INDEX \/ fuel = 0 THEN <<>>
    ELSE <<index>> \o FreeList(t, t.nodes[index].parent, fuel - 1)

AllFree(t) ==
    \A free \in {FreeList(t, t.idle, Len(t.nodes) + 1)} :
      \A i \in DOMAIN t.nodes : \E k \in DOMAIN free : free[k] = i

FreeAt(free, i) == {k \in DOMAIN free : free[k] = i}

\* The child slots of live nodes that hold node i.
LinksTo(t, i) ==
    {pk \in Live(t) \X OctantIdx : t.nodes[pk[1]].children[pk[2]] = i}

\* The arena of t is partitioned into a tree below the root and the free list.
ArenaPartition(t, free) ==
    /\ Len(free) <= Len(t.nodes)
    /\ \A i \in DOMAIN t.nodes :
         \/ i \in Live(t) /\ FreeAt(free, i) = {}
         \/ i \notin Live(t) /\ Cardinality(FreeAt(free, i)) = 1
    /\ t.root # NULL_INDEX =>
         t.nodes[t.root].parent = NULL_INDEX /\ LinksTo(t, t.root) = {}
    /\ \A i \in Live(t) \ {t.root} :
         /\ Cardinality(LinksTo(t, i)) = 1
         /\ \A pk \in LinksTo(t, i) : t.nodes[i].parent = pk[1]

\* C27: each slot of the arena is either reachable from the root by exactly
\* one path (each live non-root node is in exactly one child slot, of the node
\* its parent field names, and the root's parent is NULL) or occurs exactly
\* once on the free list, never both; the free list is acyclic and ends in
\* NULL.
C27_ArenaPartition ==
    ArenaPartition(Self, FreeList(Self, idle, Len(nodes) + 1))

\* A tree that has grown above an old root with a child, and has a node on the
\* free list.
C27_Witness ==
    /\ idle # NULL_INDEX /\ root # NULL_INDEX
    /\ \E i \in Live(Self) : \E j \in Live(Self) :
         nodes[i].parent = root /\ nodes[j].parent = i

\* ---------------------------------------------------------------------------
\* C28
\* ---------------------------------------------------------------------------

\* The bounds and parents get_or_create_node is called with when the free list
\* is examined.
ReuseProbes == {<<cube(0, 4), NULL_INDEX>>, <<cube(4, 8), 1>>}

\* C28: every node on the free list has an empty local set, children_len 0
\* and all eight child slots NULL, so the slot get_or_create_node reuses is
\* the node OctreeNode::new makes for the same bound and parent.
C28_FreeNodesClean ==
    \A free \in {FreeList(Self, idle, Len(nodes) + 1)} :
      /\ \A k \in DOMAIN free :
           /\ nodes[free[k]].entities = {}
           /\ nodes[free[k]].children_len = 0
           /\ ChildSlots(nodes[free[k]]) = {}
      /\ idle # NULL_INDEX =>
           \A c \in ReuseProbes : \A g \in {get_or_create_node(Self, c[1], c[2])} :
             /\ g.index = idle
             /\ g.t.nodes[g.index] = OctreeNode_new(c[1], c[2])

\* Two nodes are on the free list, the second of them once a child of the
\* first.
C28_Witness ==
    /\ idle # NULL_INDEX
    /\ nodes[idle].parent # NULL_INDEX
    /\ \E o \in BVec3 : nodes[nodes[idle].parent].aabb = get_octant(nodes[idle].aabb, o)

\* ---------------------------------------------------------------------------
\* C26
\* ---------------------------------------------------------------------------

\* C26: every raycast call terminates: in each node the walk from octant to
\* octant ends, and never comes back to an octant at a pivot it has left.
C26_RaycastTerminates ==
    \A ray \in ProbeRays(scene) : ~raycast(Self, ray).hang

\* ---------------------------------------------------------------------------
\* C21
\* ---------------------------------------------------------------------------

\* extend_for was called with self and other and handed `steps` to on_step:
\* each box contains the one before it and has twice its extent, the last
\* one contains other, and there is no step when self contains other.
Doubles(boxes, other) ==
    /\ \A k \in DOMAIN boxes \ {1} :
         /\ Contains(boxes[k], boxes[k - 1])
         /\ \A i \in Axes :
              boxes[k].max[i] - boxes[k].min[i] = 2 * (boxes[k - 1].max[i] - boxes[k - 1].min[i])
    /\ Contains(boxes[Len(boxes)], other)
    /\ Contains(boxes[1], other) => Len(boxes) = 1

\* C21: for every pair of valid boxes extend_for terminates; it calls on_step
\* once per doubling, each time with a box that contains the previous one and
\* has twice its extent; the last box passed (or the original box when no
\* step is taken) contains other; and no step is taken when the box already
\* contains other.
C21_ExtendFor ==
    (ret.op = "extend_for" /\ (ret.done \/ aborted)) =>
      ret.done /\ Doubles(<<ret.a>> \o ret.steps, ret.b)

\* Every component of b is small enough for sums and differences of two of
\* them to be exact in f32.
Exact(b) ==
    \A i \in Axes : /\ Abs(b.min[i]) < 2 ^ (MANTISSA_DIGITS - 1)
                    /\ Abs(b.max[i]) < 2 ^ (MANTISSA_DIGITS - 1)

\* The call that does not return: the first step has left the box as it was.
C21_Stuck ==
    /\ ret.op = "extend_for" /\ ~ret.done /\ aborted
    /\ ret.steps = <<ret.a>>
    /\ ~Contains(ret.a, ret.b)

\* The same for the calls whose boxes are all exact in f32.
C21_ExtendForWhereExact ==
    (ret.op = "extend_for" /\ (ret.done \/ aborted)
       /\ Exact(ret.a) /\ Exact(ret.b) /\ \A k \in DOMAIN ret.steps : Exact(ret.steps[k])) =>
      ret.done /\ Doubles(<<ret.a>> \o ret.steps, ret.b)

\* ---------------------------------------------------------------------------
\* C23
\* ---------------------------------------------------------------------------

\* The parameters at which the ray enters and leaves the slab of each axis.
SlabEntry(b, ray) ==
    [i \in Axes |-> fmin(ray_t(ray, b.min)[i], ray_t(ray, b.max)[i])]

SlabExit(b, ray) ==
    [i \in Axes |-> fmax(ray_t(ray, b.min)[i], ray_t(ray, b.max)[i])]

\* The slab test: a is the last entry, b the first exit.
SlabTestOf(a, b) == IF a < b /\ b > 0 THEN Some(<<a, b>>) ELSE None

SlabTest(box, ray) ==
    SlabTestOf(fmax(fmax(SlabEntry(box, ray)[1], SlabEntry(box, ray)[2]), SlabEntry(box, ray)[3]),
               fmin(fmin(SlabExit(box, ray)[1], SlabExit(box, ray)[2]), SlabExit(box, ray)[3]))

\* C23: intersects_ray_raw agrees with the slab test: with a the maximum over
\* the axes of the entry parameter and b the minimum of the exit parameter it
\* returns Some((a, b)) exactly when a < b and b > 0, and None otherwise; the
\* clamping against the running t_max and t_min does not change the result.
C23_RawIsSlabTest ==
    (ret.op = "intersects_ray_raw" /\ ret.done) => ret.raw = SlabTest(ret.a, ret.ray)

\* A call has returned Some for a ray that starts inside the box, and one
\* axis is parallel to the ray.
C23_Witness ==
    /\ ret.op = "intersects_ray_raw" /\ ret.done /\ ret.raw.some
    /\ ret.raw.val[1] < 0
    /\ \E i \in Axes : ret.ray.dir[i] = 0

\* ---------------------------------------------------------------------------
\* C24
\* ---------------------------------------------------------------------------

\* C24: for every valid box octant returns None exactly when some axis
\* straddles zero (min < 0 and max > 0); otherwise Some(sign) with each bit
\* true when min >= 0 on that axis and false when max <= 0; no axis is both.
C24_OctantSides ==
    (ret.op = "octant" /\ ret.done) =>
      /\ ~ret.oct.some <=> \E i \in Axes : ret.a.min[i] < 0 /\ ret.a.max[i] > 0
      /\ ret.oct.some =>
           \A i \in Axes : /\ ret.oct.val[i] <=> ret.a.min[i] >= 0
                           /\ ~ret.oct.val[i] <=> ret.a.max[i] <= 0
      /\ \A i \in Axes : ~(ret.a.min[i] >= 0 /\ ret.a.max[i] <= 0)

\* octant has answered for a box that starts at zero on one axis and ends at
\* zero on another.
C24_Witness ==
    /\ ret.op = "octant" /\ ret.done /\ ret.oct.some
    /\ \E i, j \in Axes : ret.a.min[i] = 0 /\ ret.a.max[j] = 0

\* ---------------------------------------------------------------------------
\* C25
\* ---------------------------------------------------------------------------

\* The center of the sub-box of b for the octant sign, and the offset of the
\* point of the ray at pivot from it, in exact arithmetic.
SubCenter(b, sign) ==
    [i \in Axes |-> IF sign[i] THEN (b.min[i] + 3 * b.max[i]) \div 4
                               ELSE (3 * b.min[i] + b.max[i]) \div 4]

Offset(ray, pivot, b, sign) ==
    [i \in Axes |-> ray.origin[i] + pivot * ray.dir[i] - SubCenter(b, sign)[i]]

\* The axes on which the offset v is largest in absolute value.
Largest(v) == {i \in Axes : \A j \in Axes : Abs(v[i]) >= Abs(v[j])}

\* next is sign changed on the axes of the largest offset only, each set to
\* whether the offset is positive.
FlipsLargest(sign, v, next) ==
    \A i \in Axes : next[i] = IF i \in Largest(v) THEN v[i] > 0 ELSE sign[i]

\* C25: next_octant changes only the sign bits of the axes whose absolute
\* offset, between the ray position at pivot and the center of current's
\* sub-box, is the largest (all tied axes together), setting each such bit to
\* true when the offset is positive and to false otherwise; the other bits
\* are those of current.
C25_NextOctantFlipsLargest ==
    (ret.op = "next_octant" /\ ret.done) =>
      FlipsLargest(ret.sign, Offset(ret.ray, ret.pivot, ret.a, ret.sign), ret.next)

\* next_octant has changed the bits of two axes tied for the largest offset
\* and kept the bit of the third.
C25_Witness ==
    /\ ret.op = "next_octant" /\ ret.done
    /\ \A v \in {Offset(ret.ray, ret.pivot, ret.a, ret.sign)} :
         /\ Cardinality(Largest(v)) = 2
         /\ \A i \in Largest(v) : ret.next[i] # ret.sign[i]

====
